---- MODULE Spec2Model ----
(***************************************************************************)
(* A model of the e-commerce analysis pipeline: the loader                 *)
(* (src/data_loader.py, EcommerceDataLoader) and the metrics engine        *)
(* (src/business_metrics.py, EcommerceMetrics).                            *)
(*                                                                         *)
(* Tables (pandas DataFrames) are sequences of records, one record per     *)
(* row, in row order.  Floating-point results are exact fractions plus the *)
(* two special values the code can produce, NaN and +-inf.  A call that    *)
(* raises is a result whose outcome names the exception.                   *)
(***************************************************************************)
EXTENDS Integers, Sequences, FiniteSets, TLC

VARIABLES
    disk,             \* the CSV files present under data_path: dataset name -> table
    datasets,         \* EcommerceDataLoader.datasets: dataset name -> table
    load_pos,         \* position of load_all_datasets in its loop (0: not running)
    sales_data,       \* the table handed to the operation under study
    source_view,      \* the view sales_data was built from by repeating its rows
    comparison_data,  \* calculate_revenue_metrics' optional previous-period table
    fill_method,      \* pct_change's default fill_method of the installed pandas
    ret,              \* the last call: its name, arguments, outcome and value
    cache,            \* st.cache_data's entry for load_data
    file_reads        \* runs of load_all_datasets since the cache was last empty

vars == <<disk, datasets, load_pos, sales_data, source_view, comparison_data,
          fill_method, ret, cache, file_reads>>

----------------------------------------------------------------------------
(* Bounds of the model *)

MaxRows == 3
MaxCmpRows == 1
MaxOrders == 2
MaxItems == 2
MaxRepeat == 2
MaxSalesRows == 3

----------------------------------------------------------------------------
(* Generic helpers *)

SeqsUpTo(S, n) == UNION {[1..k -> S] : k \in 0..n}

Range(s) == {s[i] : i \in DOMAIN s}

RECURSIVE SumSeq(_)
SumSeq(s) == IF s = <<>> THEN 0 ELSE s[1] + SumSeq(Tail(s))

RECURSIVE Flatten(_)
Flatten(ss) == IF ss = <<>> THEN <<>> ELSE ss[1] \o Flatten(Tail(ss))

RECURSIVE SortedSeq(_)
\* the elements of a finite set of integers in ascending order
SortedSeq(S) ==
    IF S = {} THEN <<>>
    ELSE LET m == CHOOSE x \in S : \A y \in S : x <= y
         IN  <<m>> \o SortedSeq(S \ {m})

Abs(x) == IF x < 0 THEN -x ELSE x

RECURSIVE GCD(_, _)
GCD(a, b) == IF b = 0 THEN a ELSE GCD(b, a % b)

----------------------------------------------------------------------------
(* Floating-point values: an exact fraction n/d in lowest terms (d > 0),   *)
(* NaN, or an infinity                                                     *)

NaN == [k |-> "nan", n |-> 0, d |-> 1]
Inf(sign) == [k |-> "inf", n |-> sign, d |-> 1]

Frac(n, d) ==
    LET g == GCD(Abs(n), d)
    IN  [k |-> "num", n |-> n \div g, d |-> d \div g]

Num(n) == Frac(n, 1)

IsNum(x) == x.k = "num"
IsNaN(x) == x.k = "nan"
IsInf(x) == x.k = "inf"

\* x - y
FSub(x, y) ==
    IF IsNaN(x) \/ IsNaN(y) THEN NaN
    ELSE IF IsInf(x) /\ IsInf(y) THEN (IF x.n = y.n THEN NaN ELSE x)
    ELSE IF IsInf(x) THEN x
    ELSE IF IsInf(y) THEN Inf(-y.n)
    ELSE Frac(x.n * y.d - y.n * x.d, x.d * y.d)

\* x / y as numpy divides: a zero divisor gives nan or an infinity, no exception
FDiv(x, y) ==
    IF IsNaN(x) \/ IsNaN(y) THEN NaN
    ELSE IF IsInf(x) /\ IsInf(y) THEN NaN
    ELSE IF IsInf(x) THEN (IF y.n < 0 THEN Inf(-x.n) ELSE x)
    ELSE IF IsInf(y) THEN Num(0)
    ELSE IF y.n = 0 THEN (IF x.n = 0 THEN NaN ELSE Inf(IF x.n > 0 THEN 1 ELSE -1))
    ELSE IF y.n > 0 THEN Frac(x.n * y.d, x.d * y.n)
    ELSE Frac(-(x.n * y.d), x.d * (-y.n))

\* x * c for an integer c > 0
FScale(x, c) ==
    IF IsNum(x) THEN Frac(x.n * c, x.d) ELSE x

\* Series.mean(): NaN on an empty series
Mean(s) == IF s = <<>> THEN NaN ELSE Frac(SumSeq(s), Len(s))

----------------------------------------------------------------------------
(* Call results *)

Ok(v) == [outcome |-> "ok", value |-> v]
Raise(e) == [outcome |-> e, value |-> <<>>]

NoCall == [op |-> "none", args |-> <<>>, outcome |-> "none", value |-> <<>>]

\* st.cache_data holds no value for load_data
NoEntry == [hit |-> FALSE, value |-> <<>>]
Call(name, args, r) ==
    [op |-> name, args |-> args, outcome |-> r.outcome, value |-> r.value]

----------------------------------------------------------------------------
(* Timestamps.  A CSV cell holds a date as its calendar fields (or is      *)
(* empty); pd.to_datetime turns it into a point on the time line, here the *)
(* hours since 2022-01-01 00:00, and the .dt accessors read the calendar   *)
(* fields back from that point.  The calendar is that of 2022 and 2023.    *)

RawTs(y, m, d, h) == [empty |-> FALSE, y |-> y, m |-> m, d |-> d, h |-> h]
RawEmpty == [empty |-> TRUE, y |-> 0, m |-> 0, d |-> 0, h |-> 0]

NaT == [isnat |-> TRUE, t |-> 0]
Ts(t) == [isnat |-> FALSE, t |-> t]

\* a missing integer (NaN in an integer-valued column)
NA == [isna |-> TRUE, v |-> 0]
Val(v) == [isna |-> FALSE, v |-> v]

MonthDays == <<31, 28, 31, 30, 31, 30, 31, 31, 30, 31, 30, 31>>

DaysBefore(m) == SumSeq(SubSeq(MonthDays, 1, m - 1))

\* pd.to_datetime: a cell parsed already is returned as it is
to_datetime(raw) ==
    IF "isnat" \in DOMAIN raw THEN raw
    ELSE IF raw.empty THEN NaT
    ELSE Ts((((raw.y - 2022) * 365 + DaysBefore(raw.m) + (raw.d - 1)) * 24) + raw.h)

dt_year(ts) ==
    IF ts.isnat THEN NA ELSE Val(2022 + ((ts.t \div 24) \div 365))

dt_month(ts) ==
    IF ts.isnat THEN NA
    ELSE LET doy == (ts.t \div 24) % 365
         IN  Val(CHOOSE m \in 1..12 : DaysBefore(m) <= doy /\ doy < DaysBefore(m + 1))

\* (a - b).dt.days: whole days, rounded down; missing when either side is
td_days(a, b) ==
    IF a.isnat \/ b.isnat THEN NA ELSE Val((a.t - b.t) \div 24)

----------------------------------------------------------------------------
(* Python optional arguments and their truth value *)

None == [none |-> TRUE, v |-> 0]
Some(v) == [none |-> FALSE, v |-> v]
NoneStr == [none |-> TRUE, v |-> ""]

\* `if x:` for an int-or-None argument
TruthyInt(x) == ~x.none /\ x.v # 0
\* `if s:` for a str-or-None argument
TruthyStr(s) == ~s.none /\ s.v # ""

\* an optional table argument
NoComparison == [none |-> TRUE, v |-> <<>>]
Given(tbl) == [none |-> FALSE, v |-> tbl]

----------------------------------------------------------------------------
(* pd.merge(left, right, how='inner'): for every left row in order, its    *)
(* matching right rows in order                                            *)

InnerMerge(left, right, Match(_, _), Join(_, _)) ==
    Flatten([i \in 1..Len(left) |->
        LET m == SelectSeq(right, LAMBDA r : Match(left[i], r))
        IN  [j \in 1..Len(m) |-> Join(left[i], m[j])]])

----------------------------------------------------------------------------
(* EcommerceDataLoader *)

\* load_all_datasets' dataset_files, in the order the loop visits them
dataset_files ==
    <<"orders", "order_items", "products", "customers", "reviews", "payments">>

DatasetNames == Range(dataset_files)

\* self.datasets[name]: a KeyError when the name was never loaded
Lookup(ds, name) ==
    IF name \in DOMAIN ds THEN Ok(ds[name]) ELSE Raise("KeyError")

\* one row of prepare_orders_data's result: the date columns parsed, year
\* and month read from the purchase timestamp
PreparedOrder(o) ==
    LET purchase == to_datetime(o.order_purchase_timestamp)
    IN  [order_id |-> o.order_id,
         order_status |-> o.order_status,
         customer_id |-> o.customer_id,
         order_purchase_timestamp |-> purchase,
         order_delivered_customer_date |-> to_datetime(o.order_delivered_customer_date),
         year |-> dt_year(purchase),
         month |-> dt_month(purchase)]

prepare_orders_data(ds) ==
    IF "orders" \notin DOMAIN ds THEN Raise("ValueError")
    ELSE LET got == Lookup(ds, "orders")
         IN  IF got.outcome # "ok" THEN got
             ELSE Ok([i \in 1..Len(got.value) |-> PreparedOrder(got.value[i])])

\* one row of the orders/order_items merge
SalesRow(item, o) ==
    [order_id |-> item.order_id,
     order_item_id |-> item.order_item_id,
     product_id |-> item.product_id,
     price |-> item.price,
     order_status |-> o.order_status,
     order_purchase_timestamp |-> o.order_purchase_timestamp,
     order_delivered_customer_date |-> o.order_delivered_customer_date,
     year |-> o.year,
     month |-> o.month]

SameOrder(a, b) == a.order_id = b.order_id

\* the month filter is left out
create_sales_dataset_no_month(ds, target_year, target_month, order_status) ==
    IF "orders" \notin DOMAIN ds \/ "order_items" \notin DOMAIN ds
    THEN Raise("ValueError")
    ELSE
    LET orders == prepare_orders_data(ds)
        merged == InnerMerge(ds["order_items"], orders.value, SameOrder, SalesRow)
        byStatus ==
            IF TruthyStr(order_status)
            THEN SelectSeq(merged, LAMBDA r : r.order_status = order_status.v)
            ELSE merged
    IN  Ok(IF TruthyInt(target_year)
           THEN SelectSeq(byStatus, LAMBDA r : ~r.year.isna /\ r.year.v = target_year.v)
           ELSE byStatus)

create_sales_dataset(ds, target_year, target_month, order_status) ==
    IF "orders" \notin DOMAIN ds \/ "order_items" \notin DOMAIN ds
    THEN Raise("ValueError")
    ELSE
    LET orders == prepare_orders_data(ds)
        order_items == Lookup(ds, "order_items")
    IN  IF orders.outcome # "ok" THEN orders
        ELSE IF order_items.outcome # "ok" THEN order_items
        ELSE
        LET merged == InnerMerge(order_items.value, orders.value, SameOrder, SalesRow)
            byStatus ==
                IF TruthyStr(order_status)
                THEN SelectSeq(merged, LAMBDA r : r.order_status = order_status.v)
                ELSE merged
            byYear ==
                IF TruthyInt(target_year)
                THEN SelectSeq(byStatus,
                               LAMBDA r : ~r.year.isna /\ r.year.v = target_year.v)
                ELSE byStatus
            byMonth ==
                IF TruthyInt(target_month)
                THEN SelectSeq(byYear,
                               LAMBDA r : ~r.month.isna /\ r.month.v = target_month.v)
                ELSE byYear
        IN  Ok(byMonth)

\* the bucket limits taken as exclusive
categorize_delivery_speed_exclusive(days) ==
    IF days.isna THEN "Unknown"
    ELSE IF days.v < 3 THEN "1-3 days"
    ELSE IF days.v < 7 THEN "4-7 days"
    ELSE "8+ days"

categorize_delivery_speed(days) ==
    IF days.isna THEN "Unknown"
    ELSE IF days.v <= 3 THEN "1-3 days"
    ELSE IF days.v <= 7 THEN "4-7 days"
    ELSE "8+ days"

\* one row of add_delivery_metrics' result: the row plus its two new columns
WithDelivery(r) ==
    LET speed == td_days(r.order_delivered_customer_date, r.order_purchase_timestamp)
    IN  [delivery_speed |-> speed,
         delivery_category |-> categorize_delivery_speed(speed)] @@ r

add_delivery_metrics(sales) ==
    Ok([i \in 1..Len(sales) |-> WithDelivery(sales[i])])

CategoryRow(p, r) ==
    [product_id |-> p.product_id,
     product_category_name |-> p.product_category_name,
     price |-> r.price,
     order_id |-> r.order_id]

get_product_categories_data(ds, sales) ==
    IF "products" \notin DOMAIN ds THEN Raise("ValueError")
    ELSE LET products == Lookup(ds, "products")
         IN  IF products.outcome # "ok" THEN products
             ELSE Ok(InnerMerge(products.value, sales,
                                LAMBDA p, r : p.product_id = r.product_id,
                                CategoryRow))

CustomerRow(r, o) ==
    [order_id |-> r.order_id, price |-> r.price, customer_id |-> o.customer_id]

StateRow(r, c) ==
    [order_id |-> r.order_id, price |-> r.price, customer_id |-> r.customer_id,
     customer_state |-> c.customer_state]

\* the guard forgets the orders dataset
get_customer_geographic_data_unguarded(ds, sales) ==
    IF "customers" \notin DOMAIN ds THEN Raise("ValueError")
    ELSE LET orders == Lookup(ds, "orders")
             customers == Lookup(ds, "customers")
         IN  IF orders.outcome # "ok" THEN orders
             ELSE Ok(<<>>)

get_customer_geographic_data(ds, sales) ==
    IF "orders" \notin DOMAIN ds \/ "customers" \notin DOMAIN ds
    THEN Raise("ValueError")
    ELSE LET orders == Lookup(ds, "orders")
             customers == Lookup(ds, "customers")
         IN  IF orders.outcome # "ok" THEN orders
             ELSE IF customers.outcome # "ok" THEN customers
             ELSE LET sales_with_customers ==
                          InnerMerge(sales, orders.value, SameOrder, CustomerRow)
                  IN  Ok(InnerMerge(sales_with_customers, customers.value,
                                    LAMBDA r, c : r.customer_id = c.customer_id,
                                    StateRow))

ReviewRow(r, v) == [review_score |-> v.review_score] @@ r

\* a left join: a line without a review kept with a missing score
get_review_data_left_join(ds, sales) ==
    IF "reviews" \notin DOMAIN ds THEN Raise("ValueError")
    ELSE LET reviews == Lookup(ds, "reviews")
         IN  IF reviews.outcome # "ok" THEN reviews
             ELSE Ok(Flatten([i \in 1..Len(sales) |->
                     LET m == SelectSeq(reviews.value,
                                        LAMBDA v : SameOrder(sales[i], v))
                     IN  IF m = <<>> THEN <<ReviewRow(sales[i], [review_score |-> 0])>>
                         ELSE [j \in 1..Len(m) |-> ReviewRow(sales[i], m[j])]]))

get_review_data(ds, sales) ==
    IF "reviews" \notin DOMAIN ds THEN Raise("ValueError")
    ELSE LET reviews == Lookup(ds, "reviews")
         IN  IF reviews.outcome # "ok" THEN reviews
             ELSE Ok(InnerMerge(sales, reviews.value, SameOrder, ReviewRow))

\* create_sales_dataset() with every parameter at its default
create_sales_dataset_defaults(ds) ==
    create_sales_dataset(ds, None, None, Some("delivered"))

----------------------------------------------------------------------------
(* The loader's operations as steps *)

LoaderIdle == load_pos = 0

\* load_all_datasets is entered: the loop starts at the first file
LoadBegin ==
    /\ LoaderIdle
    /\ load_pos' = 1
    /\ UNCHANGED <<cache, file_reads>>
    /\ UNCHANGED <<disk, datasets, sales_data, source_view, comparison_data,
                   fill_method, ret>>

\* the loop without its except clause: FileNotFoundError leaves the call
LoadStepNoExcept ==
    /\ load_pos \in 1..Len(dataset_files)
    /\ LET name == dataset_files[load_pos]
       IN  IF name \in DOMAIN disk
           THEN /\ datasets' = (name :> disk[name]) @@ datasets
                /\ load_pos' = load_pos + 1
                /\ ret' = ret
           ELSE /\ datasets' = datasets
                /\ load_pos' = 0
                /\ ret' = Call("load_all_datasets", <<>>, Raise("FileNotFoundError"))
    /\ UNCHANGED <<cache, file_reads>>
    /\ UNCHANGED <<disk, sales_data, source_view, comparison_data, fill_method>>

\* one iteration of the loop: read the file, or warn and continue when
\* read_csv raises FileNotFoundError
LoadStep ==
    /\ load_pos \in 1..Len(dataset_files)
    /\ LET name == dataset_files[load_pos]
       IN  datasets' = IF name \in DOMAIN disk
                       THEN (name :> disk[name]) @@ datasets
                       ELSE datasets
    /\ load_pos' = load_pos + 1
    /\ UNCHANGED <<cache, file_reads>>
    /\ UNCHANGED <<disk, sales_data, source_view, comparison_data, fill_method, ret>>

\* the loop is over: return self.datasets
LoadReturn ==
    /\ load_pos = Len(dataset_files) + 1
    /\ load_pos' = 0
    /\ ret' = Call("load_all_datasets", <<>>, Ok(datasets))
    /\ UNCHANGED <<cache, file_reads>>
    /\ UNCHANGED <<disk, datasets, sales_data, source_view, comparison_data,
                   fill_method>>

CallPrepareOrders ==
    /\ LoaderIdle
    /\ ret' = Call("prepare_orders_data", <<>>, prepare_orders_data(datasets))
    /\ UNCHANGED <<cache, file_reads>>
    /\ UNCHANGED <<disk, datasets, load_pos, sales_data, source_view,
                   comparison_data, fill_method>>

YearArgs == {None, Some(0), Some(2023)}
MonthArgs == {None, Some(2)}
StatusArgs == {NoneStr, Some(""), Some("delivered")}

\* the caller keeps the table a successful call returns
CallCreateSales ==
    /\ LoaderIdle
    /\ \E y \in YearArgs, m \in MonthArgs, st \in StatusArgs :
         LET r == create_sales_dataset(datasets, y, m, st)
         IN  /\ ret' = Call("create_sales_dataset", <<y, m, st>>, r)
             /\ sales_data' = IF r.outcome = "ok" THEN r.value ELSE sales_data
    /\ UNCHANGED <<cache, file_reads>>
    /\ UNCHANGED <<disk, datasets, load_pos, source_view, comparison_data,
                   fill_method>>

CallCreateSalesDefault ==
    /\ LoaderIdle
    /\ LET r == create_sales_dataset_defaults(datasets)
       IN  /\ ret' = Call("create_sales_dataset", <<>>, r)
           /\ sales_data' = IF r.outcome = "ok" THEN r.value ELSE sales_data
    /\ UNCHANGED <<cache, file_reads>>
    /\ UNCHANGED <<disk, datasets, load_pos, source_view, comparison_data,
                   fill_method>>

CallAddDeliveryMetrics ==
    /\ LoaderIdle
    /\ ret' = Call("add_delivery_metrics", <<sales_data>>,
                   add_delivery_metrics(sales_data))
    /\ UNCHANGED <<cache, file_reads>>
    /\ UNCHANGED <<disk, datasets, load_pos, sales_data, source_view,
                   comparison_data, fill_method>>

CallGetProductCategories ==
    /\ LoaderIdle
    /\ ret' = Call("get_product_categories_data", <<sales_data>>,
                   get_product_categories_data(datasets, sales_data))
    /\ UNCHANGED <<cache, file_reads>>
    /\ UNCHANGED <<disk, datasets, load_pos, sales_data, source_view,
                   comparison_data, fill_method>>

CallGetCustomerGeographic ==
    /\ LoaderIdle
    /\ ret' = Call("get_customer_geographic_data", <<sales_data>>,
                   get_customer_geographic_data(datasets, sales_data))
    /\ UNCHANGED <<cache, file_reads>>
    /\ UNCHANGED <<disk, datasets, load_pos, sales_data, source_view,
                   comparison_data, fill_method>>

CallGetReviewData ==
    /\ LoaderIdle
    /\ ret' = Call("get_review_data", <<sales_data>>,
                   get_review_data(datasets, sales_data))
    /\ UNCHANGED <<cache, file_reads>>
    /\ UNCHANGED <<disk, datasets, load_pos, sales_data, source_view,
                   comparison_data, fill_method>>

----------------------------------------------------------------------------
(* SpecLoader: a loader over a data directory holding any subset of the    *)
(* six files; every operation may be called at any time, also before the   *)
(* first load                                                              *)

FileContent ==
    [orders |->
        <<[order_id |-> "A", order_status |-> "delivered", customer_id |-> "c1",
           order_purchase_timestamp |-> RawTs(2023, 2, 10, 9),
           order_delivered_customer_date |-> RawTs(2023, 2, 14, 8)],
          [order_id |-> "B", order_status |-> "canceled", customer_id |-> "c2",
           order_purchase_timestamp |-> RawTs(2022, 2, 10, 9),
           order_delivered_customer_date |-> RawEmpty]>>,
     order_items |->
        <<[order_id |-> "A", order_item_id |-> 1, product_id |-> "p1", price |-> 10],
          [order_id |-> "A", order_item_id |-> 2, product_id |-> "p2", price |-> 20],
          [order_id |-> "B", order_item_id |-> 1, product_id |-> "p1", price |-> 30]>>,
     products |->
        <<[product_id |-> "p1", product_category_name |-> "toys"]>>,
     customers |->
        <<[customer_id |-> "c1", customer_state |-> "SP"]>>,
     reviews |->
        <<[order_id |-> "A", review_score |-> 5]>>,
     payments |->
        <<[order_id |-> "A", payment_value |-> 30]>>]

Restrict(f, S) == [x \in S |-> f[x]]

InitLoader ==
    /\ disk \in {Restrict(FileContent, S) : S \in SUBSET DatasetNames}
    /\ datasets = <<>>
    /\ load_pos = 0
    /\ sales_data = <<>>
    /\ source_view = <<>>
    /\ comparison_data = NoComparison
    /\ fill_method = "pad"
    /\ ret = NoCall
    /\ cache = NoEntry
    /\ file_reads = 0

NextLoader ==
    \/ LoadBegin
    \/ LoadStep
    \/ LoadReturn
    \/ CallPrepareOrders
    \/ CallCreateSales
    \/ CallCreateSalesDefault
    \/ CallAddDeliveryMetrics
    \/ CallGetProductCategories
    \/ CallGetCustomerGeographic
    \/ CallGetReviewData

SpecLoader == InitLoader /\ [][NextLoader]_vars

(* C7: load_all_datasets never fails because a file is absent: it always   *)
(* runs to its return, the mapping it returns holds every dataset whose    *)
(* file exists, and while it runs every existing file it has passed is     *)
(* loaded, whatever was missing before it.                                 *)
C7_LoadSkipsMissingFiles ==
    /\ load_pos \in 0..(Len(dataset_files) + 1)
    /\ \A i \in 1..(load_pos - 1) :
         dataset_files[i] \in DOMAIN disk =>
            /\ dataset_files[i] \in DOMAIN datasets
            /\ datasets[dataset_files[i]] = disk[dataset_files[i]]
    /\ ret.op = "load_all_datasets" =>
         /\ ret.outcome = "ok"
         /\ \A n \in DOMAIN disk :
              n \in DOMAIN ret.value /\ ret.value[n] = disk[n]

\* a load returned with files missing before and after a file that exists
C7_Witness ==
    /\ ret.op = "load_all_datasets"
    /\ ret.outcome = "ok"
    /\ DOMAIN disk = {"order_items", "reviews"}
    /\ DOMAIN ret.value = {"order_items", "reviews"}

\* the datasets each operation reads from the loaded mapping
Needs ==
    [prepare_orders_data |-> {"orders"},
     create_sales_dataset |-> {"orders", "order_items"},
     get_product_categories_data |-> {"products"},
     get_customer_geographic_data |-> {"orders", "customers"},
     get_review_data |-> {"reviews"}]

(* C8: a loader operation called while a dataset it needs is absent from   *)
(* the loaded mapping raises the dataset-required ValueError, never a      *)
(* KeyError, also before load_all_datasets was ever called.                *)
C8_MissingDatasetIsValueError ==
    (ret.op \in DOMAIN Needs /\ ~(Needs[ret.op] \subseteq DOMAIN datasets))
        => ret.outcome = "ValueError"

\* the geographic view asked for with customers loaded and orders absent
C8_Witness ==
    /\ ret.op = "get_customer_geographic_data"
    /\ "customers" \in DOMAIN datasets
    /\ "orders" \notin DOMAIN datasets
    /\ ret.outcome = "ValueError"

----------------------------------------------------------------------------
(* SpecSales: create_sales_dataset over loaded orders and order_items      *)
(* tables of every small shape: orders without items, items without an     *)
(* order, repeated order ids, both statuses, purchases in both years and   *)
(* on either side of a month boundary                                      *)

SalesOrderRows ==
    {[order_id |-> id, order_status |-> st, customer_id |-> "c1",
      order_purchase_timestamp |-> ts,
      order_delivered_customer_date |-> RawEmpty] :
        id \in {"A", "B"}, st \in {"delivered", "canceled"},
        ts \in {RawTs(2022, 2, 10, 9), RawTs(2023, 1, 31, 23), RawTs(2023, 2, 1, 0)}}

SalesItemRows ==
    {[order_id |-> id, order_item_id |-> 1, product_id |-> "p1", price |-> 10] :
        id \in {"A", "C"}}

InitSales ==
    /\ \E o \in SeqsUpTo(SalesOrderRows, MaxOrders),
          it \in SeqsUpTo(SalesItemRows, MaxItems) :
         /\ disk = [orders |-> o, order_items |-> it]
         /\ datasets = [orders |-> o, order_items |-> it]
    /\ load_pos = 0
    /\ sales_data = <<>>
    /\ source_view = <<>>
    /\ comparison_data = NoComparison
    /\ fill_method = "pad"
    /\ ret = NoCall
    /\ cache = NoEntry
    /\ file_reads = 0

\* create_sales_dataset reads the loaded mapping and changes nothing in it,
\* so one call per behaviour reaches every result a sequence of calls does
NextSales ==
    \/ ret = NoCall /\ CallCreateSales
    \/ ret = NoCall /\ CallCreateSalesDefault

SpecSales == InitSales /\ [][NextSales]_vars

\* the arguments in force in the recorded create_sales_dataset call
SalesArgs ==
    IF ret.args = <<>> THEN <<None, None, Some("delivered")>> ELSE ret.args

\* the (order item, order) index pairs the claim selects, read off the CSV
\* cells; a filter is supplied when its argument is neither absent nor empty
SelectedPairs ==
    LET items == datasets["order_items"]
        orders == datasets["orders"]
        y == SalesArgs[1]
        m == SalesArgs[2]
        st == SalesArgs[3]
    IN  {p \in (DOMAIN items) \X (DOMAIN orders) :
            /\ items[p[1]].order_id = orders[p[2]].order_id
            /\ (~st.none /\ st.v # "") => orders[p[2]].order_status = st.v
            /\ (~y.none /\ y.v # 0) => orders[p[2]].order_purchase_timestamp.y = y.v
            /\ (~m.none /\ m.v # 0) => orders[p[2]].order_purchase_timestamp.m = m.v}

PairKey(p) ==
    LET item == datasets["order_items"][p[1]]
        o == datasets["orders"][p[2]]
    IN  <<item.order_id, item.order_item_id, item.product_id, item.price,
          o.order_status, o.order_purchase_timestamp.y, o.order_purchase_timestamp.m>>

RowKey(r) ==
    <<r.order_id, r.order_item_id, r.product_id, r.price, r.order_status,
      r.year.v, r.month.v>>

(* C5: create_sales_dataset returns exactly one row for every (order item, *)
(* order) pair with equal order_id that passes every supplied filter       *)
(* (status, year, month), and no other row; without arguments the status   *)
(* filter is 'delivered'; an empty or absent status keeps every status.    *)
C5_SalesRowsAreTheSelectedPairs ==
    (ret.op = "create_sales_dataset")
        => /\ ret.outcome = "ok"
           /\ Len(ret.value) = Cardinality(SelectedPairs)
           /\ \A k \in {PairKey(p) : p \in SelectedPairs} \cup
                        {RowKey(ret.value[i]) : i \in DOMAIN ret.value} :
                Cardinality({i \in DOMAIN ret.value : RowKey(ret.value[i]) = k})
                    = Cardinality({p \in SelectedPairs : PairKey(p) = k})

\* a call with month 2 that keeps the item of a February order and drops
\* the item of an order purchased in the last hour of January
C5_Witness ==
    /\ ret.op = "create_sales_dataset"
    /\ ret.args # <<>>
    /\ ret.args[2] = Some(2)
    /\ Len(ret.value) = 1
    /\ \E j \in DOMAIN datasets["orders"] :
         /\ datasets["orders"][j].order_id = "A"
         /\ datasets["orders"][j].order_purchase_timestamp = RawTs(2023, 1, 31, 23)
    /\ Len(datasets["order_items"]) = 2

----------------------------------------------------------------------------
(* SpecDelivery: add_delivery_metrics over sales tables whose rows were    *)
(* delivered after every delay around the bucket limits, or not at all     *)

PurchaseHour == to_datetime(RawTs(2023, 1, 31, 23))

DeliveryDelays == {-1, 0, 71, 72, 95, 96, 168, 191, 192}

DeliveryRows ==
    {[order_id |-> "A", order_item_id |-> 1, product_id |-> "p1", price |-> 10,
      order_status |-> "delivered",
      order_purchase_timestamp |-> PurchaseHour,
      order_delivered_customer_date |-> d,
      year |-> dt_year(PurchaseHour), month |-> dt_month(PurchaseHour)] :
        d \in {NaT} \cup {Ts(PurchaseHour.t + h) : h \in DeliveryDelays}}

InitDelivery ==
    /\ disk = <<>>
    /\ datasets = <<>>
    /\ load_pos = 0
    /\ sales_data \in SeqsUpTo(DeliveryRows, MaxSalesRows)
    /\ source_view = <<>>
    /\ comparison_data = NoComparison
    /\ fill_method = "pad"
    /\ ret = NoCall
    /\ cache = NoEntry
    /\ file_reads = 0

NextDelivery == ret = NoCall /\ CallAddDeliveryMetrics

SpecDelivery == InitDelivery /\ [][NextDelivery]_vars

\* row r of the result carries the speed and the bucket the claim gives the
\* input row it was made from
DeliveryRowAsClaimed(in, r) ==
    LET p == in.order_purchase_timestamp
        d == in.order_delivered_customer_date
        s == r.delivery_speed
    IN  IF d.isnat
        THEN s.isna /\ r.delivery_category = "Unknown"
        ELSE /\ ~s.isna
             /\ 24 * s.v <= d.t - p.t
             /\ d.t - p.t < 24 * (s.v + 1)
             /\ (s.v <= 3) => r.delivery_category = "1-3 days"
             /\ (3 < s.v /\ s.v <= 7) => r.delivery_category = "4-7 days"
             /\ (s.v > 7) => r.delivery_category = "8+ days"

(* C6: add_delivery_metrics returns as many rows as it receives; each row  *)
(* gets the whole days between purchase and delivery as its speed and the  *)
(* bucket of that speed (<= 3, <= 7, more); a row without delivery date    *)
(* keeps a missing speed and gets 'Unknown'.                               *)
C6_DeliveryBuckets ==
    (ret.op = "add_delivery_metrics")
        => /\ ret.outcome = "ok"
           /\ Len(ret.value) = Len(ret.args[1])
           /\ \A i \in DOMAIN ret.value :
                DeliveryRowAsClaimed(ret.args[1][i], ret.value[i])

\* speeds 3, 7 and 8 in three different buckets of one result
C6_Witness ==
    /\ ret.op = "add_delivery_metrics"
    /\ Len(ret.value) = 3
    /\ ret.value[1].delivery_speed = Val(3)
    /\ ret.value[1].delivery_category = "1-3 days"
    /\ ret.value[2].delivery_speed = Val(7)
    /\ ret.value[2].delivery_category = "4-7 days"
    /\ ret.value[3].delivery_speed = Val(8)
    /\ ret.value[3].delivery_category = "8+ days"

----------------------------------------------------------------------------
(* EcommerceMetrics *)

Column(tbl, c) == [i \in 1..Len(tbl) |-> tbl[i][c]]

RECURSIVE Unique(_)
\* Series.unique(): the distinct values in order of first appearance
Unique(s) ==
    IF s = <<>> THEN <<>>
    ELSE <<s[1]>> \o Unique(SelectSeq(Tail(s), LAMBDA x : x # s[1]))

\* Series.nunique(), a Python int
NUnique(s) == Len(Unique(s))

\* df.groupby(key)[c].sum() over the given group keys
GroupSums(tbl, key, c, keys) ==
    [i \in 1..Len(keys) |->
        SumSeq(Column(SelectSeq(tbl, LAMBDA r : r[key] = keys[i]), c))]

\* the mean item price taken for the order value
average_order_value_per_item(tbl) == Mean(Column(tbl, "price"))

\* sales_data.groupby('order_id')['price'].sum().mean(); the order of the
\* groups has no effect on the mean
average_order_value(tbl) ==
    Mean(GroupSums(tbl, "order_id", "price", Unique(Column(tbl, "order_id"))))

\* ((current - previous) / previous) * 100 on numpy floats
NumpyGrowth(current, previous) ==
    FScale(FDiv(FSub(current, previous), previous), 100)

\* ((current - previous) / previous) * 100 on Python ints: division by zero
\* raises
PyIntGrowth(current, previous) ==
    IF previous = 0 THEN Raise("ZeroDivisionError")
    ELSE Ok(Frac((current - previous) * 100, previous))

calculate_revenue_metrics(sales, comparison) ==
    LET current ==
            [total_revenue |-> Num(SumSeq(Column(sales, "price"))),
             total_orders |-> NUnique(Column(sales, "order_id")),
             total_items |-> Len(sales),
             average_order_value |-> average_order_value(sales),
             average_item_price |-> Mean(Column(sales, "price"))]
    IN  IF comparison.none THEN Ok(current)
        ELSE
        LET prev_revenue == Num(SumSeq(Column(comparison.v, "price")))
            prev_orders == NUnique(Column(comparison.v, "order_id"))
            prev_aov == average_order_value(comparison.v)
            order_growth == PyIntGrowth(current.total_orders, prev_orders)
        IN  IF order_growth.outcome # "ok" THEN order_growth
            ELSE Ok([revenue_growth_rate |->
                         NumpyGrowth(current.total_revenue, prev_revenue),
                     order_growth_rate |-> order_growth.value,
                     aov_growth_rate |->
                         NumpyGrowth(current.average_order_value, prev_aov),
                     previous_revenue |-> prev_revenue,
                     previous_orders |-> prev_orders,
                     previous_aov |-> prev_aov] @@ current)

CallRevenueMetrics ==
    /\ ret' = Call("calculate_revenue_metrics", <<sales_data, comparison_data>>,
                   calculate_revenue_metrics(sales_data, comparison_data))
    /\ UNCHANGED <<cache, file_reads>>
    /\ UNCHANGED <<disk, datasets, load_pos, sales_data, source_view,
                   comparison_data, fill_method>>

----------------------------------------------------------------------------
(* SpecRevenue: calculate_revenue_metrics over every small sales view,     *)
(* without a previous period and with one, the empty one included          *)

OrderIds == {"A", "B"}

RevenueRows == {[order_id |-> id, price |-> p] : id \in OrderIds, p \in {0, 10, 20, 30}}

PreviousRows == {[order_id |-> id, price |-> p] : id \in OrderIds, p \in {0, 20}}

InitRevenue ==
    /\ disk = <<>>
    /\ datasets = <<>>
    /\ load_pos = 0
    /\ sales_data \in SeqsUpTo(RevenueRows, MaxRows)
    /\ source_view = <<>>
    /\ comparison_data \in
         {NoComparison} \cup {Given(t) : t \in SeqsUpTo(PreviousRows, MaxCmpRows)}
    /\ fill_method = "pad"
    /\ ret = NoCall
    /\ cache = NoEntry
    /\ file_reads = 0

\* the metrics engine keeps no state: one call per behaviour reaches every
\* result
NextRevenue == ret = NoCall /\ CallRevenueMetrics

SpecRevenue == InitRevenue /\ [][NextRevenue]_vars

\* the sum of column c of tbl, taken value by value
WeightedSum(tbl, c) ==
    LET vals == {tbl[i][c] : i \in DOMAIN tbl}
        f[S \in SUBSET vals] ==
            IF S = {} THEN 0
            ELSE LET v == CHOOSE x \in S : TRUE
                 IN  v * Cardinality({i \in DOMAIN tbl : tbl[i][c] = v}) + f[S \ {v}]
    IN  f[vals]

DistinctOrders(tbl) == {tbl[i].order_id : i \in DOMAIN tbl}

ExampleView ==
    <<[order_id |-> "A", price |-> 10], [order_id |-> "A", price |-> 20],
      [order_id |-> "B", price |-> 30]>>

(* C1: the metrics calculate_revenue_metrics returns for a sales view:     *)
(* total_revenue is the sum of price over the line items, total_orders the *)
(* number of distinct order ids, average_order_value the revenue per       *)
(* distinct order (the mean of the per-order sums), average_item_price the *)
(* revenue per line item; orders A (10, 20) and B (30) give 60, 2, 30, 20. *)
C1_RevenueMetrics ==
    (ret.op = "calculate_revenue_metrics" /\ ret.outcome = "ok")
        => LET view == ret.args[1]
               m == ret.value
               total == WeightedSum(view, "price")
               orders == Cardinality(DistinctOrders(view))
           IN  /\ m.total_revenue = Num(total)
               /\ m.total_orders = orders
               /\ IF view = <<>>
                  THEN IsNaN(m.average_order_value) /\ IsNaN(m.average_item_price)
                  ELSE /\ IsNum(m.average_order_value)
                       /\ m.average_order_value.n * orders
                              = total * m.average_order_value.d
                       /\ IsNum(m.average_item_price)
                       /\ m.average_item_price.n * Len(view)
                              = total * m.average_item_price.d
               /\ view = ExampleView =>
                      /\ m.total_revenue = Num(60)
                      /\ m.total_orders = 2
                      /\ m.average_order_value = Num(30)
                      /\ m.average_item_price = Num(20)

\* the metrics of the example view, whose order value (30) is not its item
\* price (20)
C1_Witness ==
    /\ ret.op = "calculate_revenue_metrics"
    /\ ret.outcome = "ok"
    /\ ret.args[1] = ExampleView
    /\ ret.value.average_order_value = Num(30)
    /\ ret.value.average_item_price = Num(20)

\* the previous-period table of the recorded call has a zero base
ZeroBase(prev) ==
    \/ SumSeq(Column(prev, "price")) = 0
    \/ DistinctOrders(prev) = {}

Undefined(x) == IsNaN(x) \/ IsInf(x)

(* C2: given a previous-period table whose revenue, order count or order   *)
(* value is zero, calculate_revenue_metrics does not raise: it returns the *)
(* current metrics, and each growth rate whose base is zero is an explicit *)
(* undefined or infinite value.                                            *)
C2_ZeroBaseGrowthIsUndefined ==
    (/\ ret.op = "calculate_revenue_metrics"
     /\ ~ret.args[2].none
     /\ ZeroBase(ret.args[2].v))
        => /\ ret.outcome = "ok"
           /\ ret.value.total_revenue = Num(SumSeq(Column(ret.args[1], "price")))
           /\ SumSeq(Column(ret.args[2].v, "price")) = 0 =>
                  /\ Undefined(ret.value.revenue_growth_rate)
                  /\ Undefined(ret.value.aov_growth_rate)
           /\ DistinctOrders(ret.args[2].v) = {} =>
                  Undefined(ret.value.order_growth_rate)

----------------------------------------------------------------------------
(* calculate_monthly_trends *)

\* Series.ffill(): a missing value takes the last value before it
Ffill(col) ==
    LET f[i \in 0..Len(col)] ==
            IF i = 0 THEN NaN
            ELSE IF IsNaN(col[i]) THEN f[i - 1] ELSE col[i]
    IN  [i \in 1..Len(col) |-> f[i]]

\* the first row given a change of zero
pct_change_zero_first(col, fill) ==
    LET data == IF fill = "pad" THEN Ffill(col) ELSE col
    IN  [i \in 1..Len(col) |->
            IF i = 1 THEN Num(0)
            ELSE FSub(FDiv(data[i], data[i - 1]), Num(1))]

\* the change left as a difference, not divided by the earlier value
pct_change_as_difference(col, fill) ==
    LET data == IF fill = "pad" THEN Ffill(col) ELSE col
        shifted == [i \in 1..Len(col) |-> IF i = 1 THEN NaN ELSE data[i - 1]]
    IN  [i \in 1..Len(col) |-> FSub(data[i], shifted[i])]

\* Series.pct_change(): data / data.shift(1) - 1, after filling the gaps
\* when the installed pandas still pads by default
pct_change(col, fill) ==
    LET data == IF fill = "pad" THEN Ffill(col) ELSE col
        shifted == [i \in 1..Len(col) |-> IF i = 1 THEN NaN ELSE data[i - 1]]
    IN  [i \in 1..Len(col) |-> FSub(FDiv(data[i], shifted[i]), Num(1))]

\* the column assignment of line 90: the right-hand side is a series
\* labelled by month, the frame's rows are labelled 0, 1, 2, ... after
\* reset_index, and the assignment matches labels
AlignedAov(months, aov_by_month) ==
    [i \in 1..Len(months) |->
        IF \E j \in 1..Len(months) : months[j] = i - 1
        THEN aov_by_month[CHOOSE j \in 1..Len(months) : months[j] = i - 1]
        ELSE NaN]

calculate_monthly_trends(sales, fill) ==
    LET months == SortedSeq(Range(Column(sales, "month")))
        group(i) == SelectSeq(sales, LAMBDA r : r.month = months[i])
        revenue == [i \in 1..Len(months) |-> Num(SumSeq(Column(group(i), "price")))]
        orders == [i \in 1..Len(months) |-> Num(NUnique(Column(group(i), "order_id")))]
        aov_by_month == [i \in 1..Len(months) |-> FDiv(revenue[i], orders[i])]
        aov == AlignedAov(months, aov_by_month)
        revenue_growth == pct_change(revenue, fill)
        order_growth == pct_change(orders, fill)
        aov_growth == pct_change(aov, fill)
    IN  Ok([i \in 1..Len(months) |->
              [month |-> months[i],
               revenue |-> revenue[i],
               orders |-> orders[i],
               aov |-> aov[i],
               revenue_growth |-> FScale(revenue_growth[i], 100),
               order_growth |-> FScale(order_growth[i], 100),
               aov_growth |-> FScale(aov_growth[i], 100)]])

CallMonthlyTrends ==
    /\ ret' = Call("calculate_monthly_trends", <<sales_data>>,
                   calculate_monthly_trends(sales_data, fill_method))
    /\ UNCHANGED <<cache, file_reads>>
    /\ UNCHANGED <<disk, datasets, load_pos, sales_data, source_view,
                   comparison_data, fill_method>>

----------------------------------------------------------------------------
(* SpecTrends: calculate_monthly_trends over every small sales view, under *)
(* either default of pct_change                                            *)

TrendRows ==
    {[order_id |-> id, price |-> p, month |-> m] :
        id \in OrderIds, p \in {0, 10}, m \in 1..3}

InitTrends ==
    /\ disk = <<>>
    /\ datasets = <<>>
    /\ load_pos = 0
    /\ sales_data \in SeqsUpTo(TrendRows, MaxRows)
    /\ source_view = <<>>
    /\ comparison_data = NoComparison
    /\ fill_method \in {"pad", "none"}
    /\ ret = NoCall
    /\ cache = NoEntry
    /\ file_reads = 0

NextTrends == ret = NoCall /\ CallMonthlyTrends

SpecTrends == InitTrends /\ [][NextTrends]_vars

(* C3: every row of calculate_monthly_trends' table has a defined aov, the *)
(* revenue of that row divided by the distinct-order count of that row.    *)
C3_AovIsRevenuePerOrder ==
    (ret.op = "calculate_monthly_trends")
        => \A i \in DOMAIN ret.value :
              LET row == ret.value[i]
              IN  /\ IsNum(row.aov)
                  /\ row.aov = FDiv(row.revenue, row.orders)

(* C4: calculate_monthly_trends does not raise, and the first row of its   *)
(* table has no value (NaN, not zero) for revenue_growth, order_growth and *)
(* aov_growth; a single-month input gives one row, with no growth value.   *)
C4_FirstMonthGrowthUndefined ==
    (ret.op = "calculate_monthly_trends")
        => /\ ret.outcome = "ok"
           /\ (ret.args[1] # <<>>) => Len(ret.value) >= 1
           /\ (Cardinality(Range(Column(ret.args[1], "month"))) = 1)
                  => Len(ret.value) = 1
           /\ (Len(ret.value) >= 1) =>
                  /\ IsNaN(ret.value[1].revenue_growth)
                  /\ IsNaN(ret.value[1].order_growth)
                  /\ IsNaN(ret.value[1].aov_growth)

\* a view of two line items of one month: one row, with revenue and no
\* growth value
C4_Witness ==
    /\ ret.op = "calculate_monthly_trends"
    /\ Len(ret.args[1]) = 2
    /\ Len(ret.value) = 1
    /\ ret.value[1].revenue = Num(20)
    /\ IsNaN(ret.value[1].revenue_growth)

----------------------------------------------------------------------------
(* calculate_customer_satisfaction and _calculate_nps *)

\* round(x, 2): the nearest multiple of 1/100, a tie going to the even one
Round2(x) ==
    IF ~IsNum(x) THEN x
    ELSE LET q == x.n * 100
             lo == q \div x.d
             rem == q % x.d
             h == IF 2 * rem < x.d THEN lo
                  ELSE IF 2 * rem > x.d THEN lo + 1
                  ELSE IF lo % 2 = 0 THEN lo ELSE lo + 1
         IN  Frac(h, 100)

\* a score of 4 (8 on the 10-point scale) taken for a promoter
calculate_nps_promoters_from_8(scores) ==
    LET nps_scores == [i \in 1..Len(scores) |-> scores[i] * 2]
        promoters == Len(SelectSeq(nps_scores, LAMBDA x : x >= 8))
        detractors == Len(SelectSeq(nps_scores, LAMBDA x : x <= 6))
    IN  Round2(FScale(FDiv(Num(promoters - detractors), Num(Len(nps_scores))), 100))

\* _calculate_nps
calculate_nps(scores) ==
    LET nps_scores == [i \in 1..Len(scores) |-> scores[i] * 2]
        promoters == Len(SelectSeq(nps_scores, LAMBDA x : x >= 9))
        detractors == Len(SelectSeq(nps_scores, LAMBDA x : x <= 6))
        total == Len(nps_scores)
    IN  Round2(FScale(FDiv(Num(promoters - detractors), Num(total)), 100))

\* the rows kept as they come
drop_duplicates_keeps_all(tbl) == tbl

\* DataFrame.drop_duplicates(): the first of every run of equal rows
drop_duplicates(tbl) == Unique(tbl)

ReviewPair(r) == [order_id |-> r.order_id, review_score |-> r.review_score]

calculate_customer_satisfaction(view) ==
    LET unique_orders ==
            drop_duplicates([i \in 1..Len(view) |-> ReviewPair(view[i])])
        scores == Column(unique_orders, "review_score")
    IN  Ok([average_rating |-> Mean(scores),
            total_reviews |-> Len(unique_orders),
            rating_distribution |->
                [v \in Range(scores) |-> Len(SelectSeq(scores, LAMBDA x : x = v))],
            satisfaction_rate |->
                FScale(Mean([i \in 1..Len(scores) |->
                                IF scores[i] >= 4 THEN 1 ELSE 0]), 100),
            nps_score |-> calculate_nps(scores)])

CallCustomerSatisfaction ==
    /\ ret' = Call("calculate_customer_satisfaction", <<sales_data>>,
                   calculate_customer_satisfaction(sales_data))
    /\ UNCHANGED <<cache, file_reads>>
    /\ UNCHANGED <<disk, datasets, load_pos, sales_data, source_view,
                   comparison_data, fill_method>>

CallNps ==
    /\ ret' = Call("_calculate_nps", <<Column(sales_data, "review_score")>>,
                   Ok(calculate_nps(Column(sales_data, "review_score"))))
    /\ UNCHANGED <<cache, file_reads>>
    /\ UNCHANGED <<disk, datasets, load_pos, sales_data, source_view,
                   comparison_data, fill_method>>

\* every row of the view n times in a row
RepeatEach(tbl, n) == Flatten([i \in 1..Len(tbl) |-> [j \in 1..n |-> tbl[i]]])

\* the view reaches the metrics engine with every row repeated, as a
\* review joined to an order of several line items is
RepeatRows ==
    /\ sales_data = source_view
    /\ \E n \in 2..MaxRepeat : sales_data' = RepeatEach(source_view, n)
    /\ UNCHANGED <<cache, file_reads>>
    /\ UNCHANGED <<disk, datasets, load_pos, source_view, comparison_data,
                   fill_method, ret>>

----------------------------------------------------------------------------
(* SpecSatisfaction: the satisfaction metrics over every small view of     *)
(* (order, score) rows, as it is and with its rows repeated                *)

ReviewRows == {[order_id |-> id, review_score |-> sc] : id \in OrderIds, sc \in 1..5}

InitSatisfaction ==
    /\ disk = <<>>
    /\ datasets = <<>>
    /\ load_pos = 0
    /\ source_view \in SeqsUpTo(ReviewRows, MaxRows)
    /\ sales_data = source_view
    /\ comparison_data = NoComparison
    /\ fill_method = "pad"
    /\ ret = NoCall
    /\ cache = NoEntry
    /\ file_reads = 0

NextSatisfaction ==
    \/ ret = NoCall /\ RepeatRows
    \/ ret = NoCall /\ CallCustomerSatisfaction
    \/ ret = NoCall /\ CallNps

SpecSatisfaction == InitSatisfaction /\ [][NextSatisfaction]_vars

Count(scores, Test(_)) == Cardinality({i \in DOMAIN scores : Test(scores[i])})

\* 100 * (number of 5s - number of scores <= 3), before the division
NpsNumerator(scores) ==
    100 * (Count(scores, LAMBDA x : x = 5) - Count(scores, LAMBDA x : x <= 3))

(* C9 as stated: for every non-empty collection of scores in 1..5 the NPS  *)
(* score equals 100 * (number of 5s - number of scores <= 3) / (number of  *)
(* scores).                                                                *)
C9_NpsIsExactRatio ==
    (ret.op = "_calculate_nps" /\ ret.args[1] # <<>>)
        => ret.value = Frac(NpsNumerator(ret.args[1]), Len(ret.args[1]))

(* C9 as amended: for every non-empty collection of scores in 1..5 the NPS *)
(* score is 100 * (number of 5s - number of scores <= 3) / (number of      *)
(* scores) rounded to two decimal places: a multiple of 1/100 at most      *)
(* 1/200 away from it; a 4 counts on neither side, so all 5s give 100, all *)
(* 1s give -100 and all 4s give 0.                                         *)
C9_NpsIsRoundedRatio ==
    (ret.op = "_calculate_nps" /\ ret.args[1] # <<>>)
        => LET scores == ret.args[1]
               n == Len(scores)
               nps == ret.value
           IN  /\ IsNum(nps)
               /\ 100 % nps.d = 0
               /\ LET h == nps.n * (100 \div nps.d)
                  IN  2 * Abs(h * n - 100 * NpsNumerator(scores)) <= n
               /\ Range(scores) = {5} => nps = Num(100)
               /\ Range(scores) = {1} => nps = Num(-100)
               /\ Range(scores) = {4} => nps = Num(0)

\* one promoter among three scores: 33.33, not 100/3
C9_Witness ==
    /\ ret.op = "_calculate_nps"
    /\ ret.args[1] = <<5, 4, 4>>
    /\ ret.value = Frac(3333, 100)

\* the view without its repeated rows: row i stays unless an earlier row has
\* the same order and score
Deduplicated(view) ==
    LET keep == {i \in DOMAIN view :
                    \A j \in 1..(i - 1) : ReviewPair(view[j]) # ReviewPair(view[i])}
    IN  [k \in 1..Cardinality(keep) |->
            view[CHOOSE i \in keep : Cardinality({j \in keep : j < i}) = k - 1]]

SatisfactionScalars(m) ==
    <<m.average_rating, m.total_reviews, m.satisfaction_rate, m.nps_score>>

(* C10: calculate_customer_satisfaction gives a view whose every row is    *)
(* repeated N times the average_rating, total_reviews, satisfaction_rate   *)
(* and nps_score it gives the view without its duplicate rows.             *)
C10_SatisfactionIgnoresRepeats ==
    (ret.op = "calculate_customer_satisfaction")
        => /\ ret.outcome = "ok"
           /\ SatisfactionScalars(ret.value) =
                SatisfactionScalars(
                    calculate_customer_satisfaction(Deduplicated(source_view)).value)
           /\ ret.value.total_reviews =
                Cardinality({ReviewPair(source_view[i]) : i \in DOMAIN source_view})

\* two reviewed orders, every row twice: two reviews counted, not four
C10_Witness ==
    /\ ret.op = "calculate_customer_satisfaction"
    /\ Len(source_view) = 2
    /\ ret.args[1] = RepeatEach(source_view, 2)
    /\ ret.value.total_reviews = 2
    /\ ret.value.average_rating = Frac(9, 2)

\* C21 as stated: every order contributes one review: total_reviews is the
\* number of distinct order_id values of the view, also when an order has
\* several reviews of different scores
C21_OneReviewPerOrder ==
    (ret.op = "calculate_customer_satisfaction")
        => ret.value.total_reviews =
               Cardinality(Range(Column(ret.args[1], "order_id")))

----------------------------------------------------------------------------
(* calculate_product_performance and calculate_geographic_performance *)

MaxPerfRows == 3

\* an empty CSV cell read as NaN in a text column
Missing == ""

\* x + y
FAdd(x, y) ==
    IF IsNaN(x) \/ IsNaN(y) THEN NaN
    ELSE IF IsInf(x) /\ IsInf(y) THEN (IF x.n = y.n THEN x ELSE NaN)
    ELSE IF IsInf(x) THEN x
    ELSE IF IsInf(y) THEN y
    ELSE Frac(x.n * y.d + y.n * x.d, x.d * y.d)

RECURSIVE FSum(_)
FSum(s) == IF s = <<>> THEN Num(0) ELSE FAdd(s[1], FSum(Tail(s)))

\* x <= y for finite x and y
FLeq(x, y) == x.n * y.d <= y.n * x.d

Perms(n) == {p \in [1..n -> 1..n] : \A i, j \in 1..n : i # j => p[i] # p[j]}

\* the table in ascending order of column c
sort_values_ascending(tbl, c) ==
    {[i \in 1..Len(tbl) |-> tbl[p[i]]] : p \in
        {q \in Perms(Len(tbl)) :
            \A i, j \in 1..Len(tbl) : i < j => FLeq(tbl[q[i]][c], tbl[q[j]][c])}}

\* sort_values(c, ascending=False): the default sort is not stable, so rows
\* of equal c may come out in any order
sort_values_descending(tbl, c) ==
    {[i \in 1..Len(tbl) |-> tbl[p[i]]] : p \in
        {q \in Perms(Len(tbl)) :
            \A i, j \in 1..Len(tbl) : i < j => FLeq(tbl[q[j]][c], tbl[q[i]][c])}}

\* the keys of groupby(key): rows with a missing key belong to no group
GroupKeys(tbl, key) ==
    Unique(SelectSeq(Column(tbl, key), LAMBDA k : k # Missing))

Group(tbl, key, k) == SelectSeq(tbl, LAMBDA r : r[key] = k)

\* the share left as a fraction of one
revenue_share_as_fraction(total_revenue, total) ==
    Round2(FDiv(total_revenue, total))

\* (total_revenue / total_revenue.sum() * 100).round(2)
revenue_share(total_revenue, total) ==
    Round2(FScale(FDiv(total_revenue, total), 100))

\* the grouped and aggregated frame before the derived columns
ProductGroups(view) ==
    LET keys == GroupKeys(view, "product_category_name")
    IN  [i \in 1..Len(keys) |->
            LET g == Group(view, "product_category_name", keys[i])
            IN  [product_category_name |-> keys[i],
                 total_revenue |-> Round2(Num(SumSeq(Column(g, "price")))),
                 avg_price |-> Round2(Mean(Column(g, "price"))),
                 total_items |-> Len(g),
                 unique_orders |-> NUnique(Column(g, "order_id"))]]

calculate_product_performance(view) ==
    LET grouped == ProductGroups(view)
        total == FSum(Column(grouped, "total_revenue"))
        performance ==
            [i \in 1..Len(grouped) |->
                [product_category_name |-> grouped[i].product_category_name,
                 total_revenue |-> grouped[i].total_revenue,
                 avg_price |-> grouped[i].avg_price,
                 total_items |-> grouped[i].total_items,
                 unique_orders |-> grouped[i].unique_orders,
                 revenue_share |-> revenue_share(grouped[i].total_revenue, total),
                 items_per_order |->
                     Round2(Frac(grouped[i].total_items, grouped[i].unique_orders))]]
    IN  sort_values_descending(performance, "total_revenue")

StateGroups(view) ==
    LET keys == GroupKeys(view, "customer_state")
    IN  [i \in 1..Len(keys) |->
            LET g == Group(view, "customer_state", keys[i])
            IN  [customer_state |-> keys[i],
                 total_revenue |-> Num(SumSeq(Column(g, "price"))),
                 total_orders |-> NUnique(Column(g, "order_id")),
                 unique_customers |-> NUnique(Column(g, "customer_id"))]]

calculate_geographic_performance(view) ==
    LET grouped == StateGroups(view)
        total == FSum(Column(grouped, "total_revenue"))
        performance ==
            [i \in 1..Len(grouped) |->
                [customer_state |-> grouped[i].customer_state,
                 total_revenue |-> grouped[i].total_revenue,
                 total_orders |-> grouped[i].total_orders,
                 unique_customers |-> grouped[i].unique_customers,
                 revenue_per_customer |->
                     Round2(FDiv(grouped[i].total_revenue,
                                 Num(grouped[i].unique_customers))),
                 orders_per_customer |->
                     Round2(Frac(grouped[i].total_orders,
                                 grouped[i].unique_customers)),
                 revenue_share |-> revenue_share(grouped[i].total_revenue, total)]]
    IN  sort_values_descending(performance, "total_revenue")

IsCategoryView(tbl) ==
    \A i \in 1..Len(tbl) : "product_category_name" \in DOMAIN tbl[i]

IsStateView(tbl) ==
    \A i \in 1..Len(tbl) : "customer_state" \in DOMAIN tbl[i]

CallProductPerformance ==
    /\ IsCategoryView(sales_data)
    /\ \E t \in calculate_product_performance(sales_data) :
           ret' = Call("calculate_product_performance", <<sales_data>>, Ok(t))
    /\ UNCHANGED <<cache, file_reads>>
    /\ UNCHANGED <<disk, datasets, load_pos, sales_data, source_view,
                   comparison_data, fill_method>>

CallGeographicPerformance ==
    /\ IsStateView(sales_data)
    /\ \E t \in calculate_geographic_performance(sales_data) :
           ret' = Call("calculate_geographic_performance", <<sales_data>>, Ok(t))
    /\ UNCHANGED <<cache, file_reads>>
    /\ UNCHANGED <<disk, datasets, load_pos, sales_data, source_view,
                   comparison_data, fill_method>>

----------------------------------------------------------------------------
(* SpecPerformance: the two performance tables over every small view of    *)
(* sales lines with their category, or with their customer and state       *)

PerfKeys == {1, 2, 3}
CategoryNames == <<"toys", "books", "garden">>
StateNames == <<"SP", "RJ", "MG">>
CustomerOf == [A |-> "c1", B |-> "c2"]

\* a sales line and the group it falls in, 0 for none
KeyedLines ==
    {[order_id |-> id, price |-> p, key |-> k] :
        id \in OrderIds, p \in {0, 10}, k \in PerfKeys \cup {0}}

\* the lines as get_product_categories_data returns them
CategoryView(t) ==
    [i \in 1..Len(t) |->
        [product_id |-> "p1",
         product_category_name |->
             IF t[i].key = 0 THEN Missing ELSE CategoryNames[t[i].key],
         price |-> t[i].price,
         order_id |-> t[i].order_id]]

\* the lines as get_customer_geographic_data returns them
StateView(t) ==
    [i \in 1..Len(t) |->
        [order_id |-> t[i].order_id,
         price |-> t[i].price,
         customer_id |-> CustomerOf[t[i].order_id],
         customer_state |->
             IF t[i].key = 0 THEN Missing ELSE StateNames[t[i].key]]]

InitPerformance ==
    /\ disk = <<>>
    /\ datasets = <<>>
    /\ load_pos = 0
    /\ \E t \in SeqsUpTo(KeyedLines, MaxPerfRows) :
           \/ sales_data = CategoryView(t)
           \/ sales_data = StateView(t)
    /\ source_view = <<>>
    /\ comparison_data = NoComparison
    /\ fill_method = "pad"
    /\ ret = NoCall
    /\ cache = NoEntry
    /\ file_reads = 0

NextPerformance ==
    \/ ret = NoCall /\ CallProductPerformance
    \/ ret = NoCall /\ CallGeographicPerformance

SpecPerformance == InitPerformance /\ [][NextPerformance]_vars

PerformanceCall ==
    ret.op \in {"calculate_product_performance", "calculate_geographic_performance"}

GroupColumn ==
    IF ret.op = "calculate_product_performance"
    THEN "product_category_name" ELSE "customer_state"

\* every row of the view handed to the call has its category (state)
EveryRowGrouped ==
    \A i \in 1..Len(ret.args[1]) : ret.args[1][i][GroupColumn] # Missing

ShareSum == FSum(Column(ret.value, "revenue_share"))

\* |x - 100| <= n/d
Within(x, n, d) ==
    /\ IsNum(x)
    /\ d * Abs(x.n - 100 * x.d) <= n * x.d

\* C11 as stated: whenever every row of the input has a category (state),
\* the revenue_share values of the returned rows sum to 100 within
\* floating-point tolerance
C11_SharesSumTo100 ==
    (PerformanceCall /\ EveryRowGrouped) => Within(ShareSum, 1, 1000000)

\* C11: for a non-empty input of positive total revenue in which every row
\* has a category (state), the revenue_share values, each rounded to two
\* decimals, sum to 100 within 0.005 per returned row
C11_SharesSumTo100UpToRounding ==
    (/\ PerformanceCall
     /\ EveryRowGrouped
     /\ SumSeq(Column(ret.args[1], "price")) > 0)
        => Within(ShareSum, Len(ret.value), 200)

\* three groups of equal revenue: 33.33 each, 99.99 in all
C11_Witness ==
    /\ PerformanceCall
    /\ EveryRowGrouped
    /\ Len(ret.value) = 3
    /\ \A i \in 1..3 : ret.value[i].revenue_share = Frac(3333, 100)
    /\ ShareSum = Frac(9999, 100)

\* C12: both functions return exactly one row for every distinct category
\* (state) of the input, in order of non-increasing total_revenue
C12_OneRowPerGroupByRevenue ==
    PerformanceCall =>
        LET keys == Column(ret.value, GroupColumn)
            present == Range(Column(ret.args[1], GroupColumn)) \ {Missing}
        IN  /\ Range(keys) = present
            /\ Len(keys) = Cardinality(present)
            /\ \A i \in 1..(Len(ret.value) - 1) :
                   FLeq(ret.value[i + 1].total_revenue, ret.value[i].total_revenue)

\* the group met first in the input earns less and is returned last
C12_Witness ==
    /\ PerformanceCall
    /\ Len(ret.value) = 2
    /\ ret.args[1][1][GroupColumn] = ret.value[2][GroupColumn]
    /\ ret.value[1].total_revenue = Num(20)
    /\ ret.value[2].total_revenue = Num(10)

----------------------------------------------------------------------------
(* calculate_delivery_performance, analyze_satisfaction_vs_delivery and   *)
(* the ordering of create_delivery_satisfaction_chart                      *)

MaxDeliveryRows == 3

RECURSIVE SortInts(_)
\* the integers of a sequence in ascending order, repeats kept
SortInts(s) ==
    IF s = <<>> THEN <<>>
    ELSE LET i == CHOOSE j \in 1..Len(s) : \A k \in 1..Len(s) : s[j] <= s[k]
         IN  <<s[i]>> \o SortInts(SubSeq(s, 1, i - 1) \o SubSeq(s, i + 1, Len(s)))

\* Series.median(): NaN on an empty series
Median(s) ==
    LET sorted == SortInts(s)
        n == Len(s)
    IN  IF n = 0 THEN NaN
        ELSE IF n % 2 = 1 THEN Num(sorted[(n + 1) \div 2])
        ELSE Frac(sorted[n \div 2] + sorted[(n \div 2) + 1], 2)

\* the values of a column that are not missing
Known(col) ==
    LET present == SelectSeq(col, LAMBDA x : ~x.isna)
    IN  [i \in 1..Len(present) |-> present[i].v]

\* (column <test> limit).mean() * 100; a missing value compares False
RateOf(flags) ==
    FScale(Mean([i \in 1..Len(flags) |-> IF flags[i] THEN 1 ELSE 0]), 100)

DeliveryTriple(r) ==
    [order_id |-> r.order_id,
     delivery_speed |-> r.delivery_speed,
     delivery_category |-> r.delivery_category]

calculate_delivery_performance(view) ==
    LET unique_orders ==
            drop_duplicates([i \in 1..Len(view) |-> DeliveryTriple(view[i])])
        speed == Column(unique_orders, "delivery_speed")
        category == Column(unique_orders, "delivery_category")
    IN  Ok([average_delivery_days |-> Mean(Known(speed)),
            median_delivery_days |-> Median(Known(speed)),
            delivery_distribution |->
                [c \in Range(category) |-> Len(SelectSeq(category, LAMBDA x : x = c))],
            fast_delivery_rate |->
                RateOf([i \in 1..Len(speed) |-> ~speed[i].isna /\ speed[i].v <= 3]),
            slow_delivery_rate |->
                RateOf([i \in 1..Len(speed) |-> ~speed[i].isna /\ speed[i].v > 7])])

CallDeliveryPerformance ==
    /\ ret' = Call("calculate_delivery_performance", <<sales_data>>,
                   calculate_delivery_performance(sales_data))
    /\ UNCHANGED <<cache, file_reads>>
    /\ UNCHANGED <<disk, datasets, load_pos, sales_data, source_view,
                   comparison_data, fill_method>>

\* round(x, 3): the nearest multiple of 1/1000, a tie going to the even one
Round3(x) ==
    IF ~IsNum(x) THEN x
    ELSE LET q == x.n * 1000
             lo == q \div x.d
             rem == q % x.d
             h == IF 2 * rem < x.d THEN lo
                  ELSE IF 2 * rem > x.d THEN lo + 1
                  ELSE IF lo % 2 = 0 THEN lo ELSE lo + 1
         IN  Frac(h, 1000)

\* the four category labels as string comparison orders them
SortedLabels == <<"1-3 days", "4-7 days", "8+ days", "Unknown">>

\* the group keys in order of first appearance
groupby_keys_unsorted(labels) == Unique(labels)

\* the group keys of groupby('delivery_category'): sorted
groupby_keys(labels) == SelectSeq(SortedLabels, LAMBDA c : c \in Range(labels))

CombinedRow(r) ==
    [order_id |-> r.order_id,
     delivery_speed |-> r.delivery_speed,
     delivery_category |-> r.delivery_category,
     review_score |-> r.review_score]

\* the rating_std column, an irrational in general that nothing reads, is
\* left out of the rows
analyze_satisfaction_vs_delivery(combined) ==
    LET unique_orders ==
            drop_duplicates([i \in 1..Len(combined) |-> CombinedRow(combined[i])])
        keys == groupby_keys(Column(unique_orders, "delivery_category"))
    IN  Ok([i \in 1..Len(keys) |->
              LET category_data ==
                      SelectSeq(unique_orders, LAMBDA r : r.delivery_category = keys[i])
                  scores == Column(category_data, "review_score")
              IN  [delivery_category |-> keys[i],
                   avg_rating |-> Round3(Mean(scores)),
                   review_count |-> Len(scores),
                   satisfaction_rate |->
                       RateOf([j \in 1..Len(scores) |-> scores[j] >= 4])]])

ordered_categories == <<"1-3 days", "4-7 days", "8+ days">>

\* the table as it reaches the bars left in the order it came
reindex_skipped(tbl) == tbl

\* set_index('delivery_category').reindex(ordered_categories).reset_index():
\* the rows of the listed labels in the listed order, NaN for a label with
\* no row
reindex(tbl) ==
    [i \in 1..Len(ordered_categories) |->
        LET found == SelectSeq(tbl, LAMBDA r : r.delivery_category = ordered_categories[i])
        IN  IF found # <<>> THEN found[1]
            ELSE [delivery_category |-> ordered_categories[i],
                  avg_rating |-> NaN,
                  review_count |-> NaN,
                  satisfaction_rate |-> NaN]]

CallAnalyzeSatisfactionVsDelivery ==
    /\ ret' = Call("analyze_satisfaction_vs_delivery", <<sales_data>>,
                   analyze_satisfaction_vs_delivery(sales_data))
    /\ UNCHANGED <<cache, file_reads>>
    /\ UNCHANGED <<disk, datasets, load_pos, sales_data, source_view,
                   comparison_data, fill_method>>

\* the chart drawn from the table the analysis returned
CallCreateDeliverySatisfactionChart ==
    /\ ret.op = "analyze_satisfaction_vs_delivery"
    /\ ret' = Call("create_delivery_satisfaction_chart", <<ret.value>>,
                   Ok(reindex(ret.value)))
    /\ UNCHANGED <<cache, file_reads>>
    /\ UNCHANGED <<disk, datasets, load_pos, sales_data, source_view,
                   comparison_data, fill_method>>

----------------------------------------------------------------------------
(* SpecDeliverySatisfaction: the satisfaction-vs-delivery table and the    *)
(* chart's table over every small view of reviewed line items              *)

ReviewedSpeeds == {NA, Val(2), Val(5), Val(9)}

CombinedRows ==
    {[order_id |-> id, delivery_speed |-> s,
      delivery_category |-> categorize_delivery_speed(s), review_score |-> sc] :
        id \in OrderIds, s \in ReviewedSpeeds, sc \in {3, 5}}

InitDeliverySatisfaction ==
    /\ disk = <<>>
    /\ datasets = <<>>
    /\ load_pos = 0
    /\ sales_data \in SeqsUpTo(CombinedRows, MaxDeliveryRows)
    /\ source_view = <<>>
    /\ comparison_data = NoComparison
    /\ fill_method = "pad"
    /\ ret = NoCall
    /\ cache = NoEntry
    /\ file_reads = 0

NextDeliverySatisfaction ==
    \/ ret = NoCall /\ CallAnalyzeSatisfactionVsDelivery
    \/ CallCreateDeliverySatisfactionChart

SpecDeliverySatisfaction ==
    InitDeliverySatisfaction /\ [][NextDeliverySatisfaction]_vars

\* position of a label in the fixed sequence, 'Unknown' after the three
Position(c) == CHOOSE i \in 1..4 : SortedLabels[i] = c

\* C13: the table returned by analyze_satisfaction_vs_delivery has one row
\* for every category present in the input, the rows of the three buckets
\* in the order '1-3 days', '4-7 days', '8+ days' (a row for orders of
\* unknown speed coming after them), and the table the chart draws has
\* exactly the three bucket rows in that order, whatever the input order
C13_FixedBucketOrder ==
    /\ ret.op = "analyze_satisfaction_vs_delivery" =>
          LET labels == Column(ret.value, "delivery_category")
          IN  /\ Range(labels) = Range(Column(sales_data, "delivery_category"))
              /\ \A i, j \in 1..Len(labels) :
                     i < j => Position(labels[i]) < Position(labels[j])
    /\ ret.op = "create_delivery_satisfaction_chart" =>
          /\ Column(ret.value, "delivery_category") = ordered_categories
          /\ \A i \in 1..3 :
                 LET rows == Unique(SelectSeq(
                                 [k \in 1..Len(sales_data) |-> CombinedRow(sales_data[k])],
                                 LAMBDA r : r.delivery_category = ordered_categories[i]))
                 IN  IF rows = <<>> THEN IsNaN(ret.value[i].avg_rating)
                     ELSE ret.value[i].review_count = Len(rows)

\* the input meets '8+ days' first and '1-3 days' last, and has no
\* '4-7 days' order
C13_Witness ==
    /\ ret.op = "create_delivery_satisfaction_chart"
    /\ Len(sales_data) = 3
    /\ sales_data[1].delivery_category = "8+ days"
    /\ sales_data[2].delivery_category = "Unknown"
    /\ sales_data[3].delivery_category = "1-3 days"
    /\ Column(ret.args[1], "delivery_category") = <<"1-3 days", "8+ days", "Unknown">>
    /\ IsNaN(ret.value[2].avg_rating)

----------------------------------------------------------------------------
(* SpecDeliveryPerformance: the delivery metrics over every small view of  *)
(* line items, every order having one delivery speed or none               *)

DeliveredOrderIds == {"A", "B", "C"}
OrderSpeeds == {NA, Val(3), Val(4), Val(7), Val(8)}

\* the line items of the listed orders as add_delivery_metrics returns them
DeliveryView(ids, speedOf) ==
    [i \in 1..Len(ids) |->
        [order_id |-> ids[i],
         price |-> 10,
         delivery_speed |-> speedOf[ids[i]],
         delivery_category |-> categorize_delivery_speed(speedOf[ids[i]])]]

InitDeliveryPerformance ==
    /\ disk = <<>>
    /\ datasets = <<>>
    /\ load_pos = 0
    /\ \E ids \in SeqsUpTo(DeliveredOrderIds, MaxDeliveryRows),
          speedOf \in [DeliveredOrderIds -> OrderSpeeds] :
           sales_data = DeliveryView(ids, speedOf)
    /\ source_view = <<>>
    /\ comparison_data = NoComparison
    /\ fill_method = "pad"
    /\ ret = NoCall
    /\ cache = NoEntry
    /\ file_reads = 0

NextDeliveryPerformance == ret = NoCall /\ CallDeliveryPerformance

SpecDeliveryPerformance ==
    InitDeliveryPerformance /\ [][NextDeliveryPerformance]_vars

\* the orders of the view, and those of them whose speed passes the test
OrdersIn(view) == Range(Column(view, "order_id"))

SpeedOfOrder(view, o) ==
    (CHOOSE r \in Range(view) : r.order_id = o).delivery_speed

\* C19: every order counts once however many line items it has:
\* fast_delivery_rate is 100 * (orders of speed <= 3) / (orders) and
\* slow_delivery_rate 100 * (orders of speed > 7) / (orders), an order of
\* unknown speed counting in the denominator and in neither numerator
C19_DeliveryRatesPerOrder ==
    ret.op = "calculate_delivery_performance" =>
        LET view == ret.args[1]
            orders == OrdersIn(view)
            fast == {o \in orders : /\ ~SpeedOfOrder(view, o).isna
                                    /\ SpeedOfOrder(view, o).v <= 3}
            slow == {o \in orders : /\ ~SpeedOfOrder(view, o).isna
                                    /\ SpeedOfOrder(view, o).v > 7}
        IN  /\ ret.outcome = "ok"
            /\ orders # {} =>
                   /\ ret.value.fast_delivery_rate =
                          Frac(100 * Cardinality(fast), Cardinality(orders))
                   /\ ret.value.slow_delivery_rate =
                          Frac(100 * Cardinality(slow), Cardinality(orders))

\* a fast order of two line items and an order never delivered
C19_Witness ==
    /\ ret.op = "calculate_delivery_performance"
    /\ Len(ret.args[1]) = 3
    /\ Cardinality(OrdersIn(ret.args[1])) = 2
    /\ \E r \in Range(ret.args[1]) : r.delivery_speed.isna
    /\ ret.value.fast_delivery_rate = Num(50)
    /\ ret.value.slow_delivery_rate = Num(0)

----------------------------------------------------------------------------
(* SpecViews: the three joined views over every small table of sales lines *)
(* and loaded datasets in which some join keys have no match, one match or *)
(* several                                                                 *)

MaxViewRows == 3

ViewLines ==
    {[order_id |-> id, order_item_id |-> 1, product_id |-> p, price |-> 10] :
        id \in OrderIds, p \in {"p1", "p2"}}

ProductTables ==
    {<<>>,
     <<[product_id |-> "p1", product_category_name |-> "toys"]>>,
     <<[product_id |-> "p2", product_category_name |-> "books"],
       [product_id |-> "p1", product_category_name |-> "toys"]>>}

OrderTables ==
    {<<[order_id |-> "A", customer_id |-> "c1"]>>,
     <<[order_id |-> "A", customer_id |-> "c1"],
       [order_id |-> "B", customer_id |-> "c2"]>>,
     <<[order_id |-> "B", customer_id |-> "c1"],
       [order_id |-> "A", customer_id |-> "c3"]>>}

CustomerTables ==
    {<<[customer_id |-> "c1", customer_state |-> "SP"]>>,
     <<[customer_id |-> "c1", customer_state |-> "SP"],
       [customer_id |-> "c2", customer_state |-> "RJ"]>>}

ReviewTables ==
    {<<>>,
     <<[order_id |-> "A", review_score |-> 5]>>,
     <<[order_id |-> "B", review_score |-> 4],
       [order_id |-> "A", review_score |-> 5],
       [order_id |-> "A", review_score |-> 3]>>}

InitViews ==
    /\ disk = <<>>
    /\ \E p \in ProductTables, o \in OrderTables, c \in CustomerTables,
          v \in ReviewTables :
           datasets = [products |-> p, orders |-> o, customers |-> c, reviews |-> v]
    /\ load_pos = 0
    /\ sales_data \in SeqsUpTo(ViewLines, MaxViewRows)
    /\ source_view = <<>>
    /\ comparison_data = NoComparison
    /\ fill_method = "pad"
    /\ ret = NoCall
    /\ cache = NoEntry
    /\ file_reads = 0

NextViews ==
    \/ ret = NoCall /\ CallGetProductCategories
    \/ ret = NoCall /\ CallGetCustomerGeographic
    \/ ret = NoCall /\ CallGetReviewData

SpecViews == InitViews /\ [][NextViews]_vars

ViewCall ==
    ret.op \in {"get_product_categories_data", "get_customer_geographic_data",
                "get_review_data"}

\* how many times the join key(s) of a sales line are matched
MatchCount(line) ==
    IF ret.op = "get_product_categories_data"
    THEN Len(SelectSeq(datasets.products, LAMBDA p : p.product_id = line.product_id))
    ELSE IF ret.op = "get_review_data"
    THEN Len(SelectSeq(datasets.reviews, LAMBDA v : v.order_id = line.order_id))
    ELSE SumSeq([i \in 1..Len(datasets.orders) |->
            IF datasets.orders[i].order_id # line.order_id THEN 0
            ELSE Len(SelectSeq(datasets.customers,
                     LAMBDA c : c.customer_id = datasets.orders[i].customer_id))])

\* the columns of a sales line that the view keeps
KeptColumns(r) ==
    IF ret.op = "get_product_categories_data"
    THEN <<r.product_id, r.price, r.order_id>>
    ELSE IF ret.op = "get_review_data"
    THEN <<r.order_id, r.order_item_id, r.product_id, r.price>>
    ELSE <<r.order_id, r.price>>

\* C16: each of the three views has rows for a sales line exactly when the
\* line's join key (product_id; order_id and then customer_id; order_id)
\* is matched, one row per match; a line without a match is dropped and the
\* call still succeeds
C16_InnerJoinViews ==
    ViewCall =>
        LET lines == ret.args[1]
        IN  /\ ret.outcome = "ok"
            /\ Len(ret.value) = SumSeq([i \in 1..Len(lines) |-> MatchCount(lines[i])])
            /\ \A i \in 1..Len(lines) :
                   MatchCount(lines[i]) > 0 <=>
                       \E j \in 1..Len(ret.value) :
                           KeptColumns(ret.value[j]) = KeptColumns(lines[i])
            /\ \A j \in 1..Len(ret.value) :
                   \E i \in 1..Len(lines) :
                       /\ KeptColumns(ret.value[j]) = KeptColumns(lines[i])
                       /\ MatchCount(lines[i]) > 0

\* of two lines the review view keeps the one of order A, the geographic
\* view the one of order B, and the category view both
C16_Witness ==
    /\ ret.op = "get_review_data"
    /\ Len(ret.args[1]) = 2
    /\ Column(ret.value, "order_id") = <<"A">>
    /\ Len(get_product_categories_data(datasets, sales_data).value) = 2
    /\ Column(get_customer_geographic_data(datasets, sales_data).value,
              "order_id") = <<"B">>

----------------------------------------------------------------------------
(* app.py: filter_data_by_date *)

\* a datetime.date as st.date_input returns it
Date(y, m, d) == [y |-> y, m |-> m, d |-> d]

\* pd.to_datetime(date): midnight at the start of the day
date_to_datetime(date) == to_datetime(RawTs(date.y, date.m, date.d, 0))

\* 'c' in df.columns; a table without rows is returned as it is by either
\* branch of the filter
HasColumn(df, c) == df # <<>> /\ c \in DOMAIN df[1]

\* pd.api.types.is_datetime64_any_dtype: the column holds parsed timestamps
is_datetime64_any_dtype(col) == \A i \in 1..Len(col) : "isnat" \in DOMAIN col[i]

\* a >= b on timestamps; NaT compares False
TsGeq(a, b) == ~a.isnat /\ ~b.isnat /\ a.t >= b.t

\* one pass of the loop: the frame after the in-place conversion of its
\* timestamp column, and the copy of the rows the mask keeps
FilterFrame(df, start_date, end_date) ==
    IF HasColumn(df, "order_purchase_timestamp")
    THEN LET converted ==
                 IF is_datetime64_any_dtype(Column(df, "order_purchase_timestamp"))
                 THEN df
                 ELSE [i \in 1..Len(df) |->
                         [df[i] EXCEPT !.order_purchase_timestamp = to_datetime(@)]]
         IN  [df |-> converted,
              filtered |->
                  SelectSeq(converted, LAMBDA r :
                      /\ TsGeq(r.order_purchase_timestamp, date_to_datetime(start_date))
                      /\ TsGeq(date_to_datetime(end_date), r.order_purchase_timestamp))]
    ELSE [df |-> df, filtered |-> df]

\* the returned dictionary, and the frames of data_dict as the call leaves
\* them
filter_data_by_date(data_dict, start_date, end_date) ==
    [filtered_data |->
        [k \in DOMAIN data_dict |->
            FilterFrame(data_dict[k], start_date, end_date).filtered],
     data_dict |->
        [k \in DOMAIN data_dict |->
            FilterFrame(data_dict[k], start_date, end_date).df]]

StartDates == {Date(2023, 1, 1), Date(2023, 2, 11)}
EndDates == {Date(2023, 2, 10), Date(2023, 2, 11), Date(2023, 12, 31)}

\* filter_data_by_date({'sales': sales_data}, start, end)
CallFilterSales ==
    /\ LoaderIdle
    /\ \E s \in StartDates, e \in EndDates :
           LET r == filter_data_by_date([sales |-> sales_data], s, e)
           IN  /\ ret' = Call("filter_data_by_date",
                              <<[sales |-> sales_data], s, e>>, Ok(r.filtered_data))
               /\ sales_data' = r.data_dict.sales
    /\ UNCHANGED <<cache, file_reads>>
    /\ UNCHANGED <<disk, datasets, load_pos, source_view, comparison_data,
                   fill_method>>

\* filter_data_by_date(loader.datasets, start, end): the frames of the
\* dictionary are the loader's own
CallFilterDatasets ==
    /\ LoaderIdle
    /\ \E s \in StartDates, e \in EndDates :
           LET r == filter_data_by_date(datasets, s, e)
           IN  /\ ret' = Call("filter_data_by_date", <<datasets, s, e>>,
                              Ok(r.filtered_data))
               /\ datasets' = r.data_dict
    /\ UNCHANGED <<cache, file_reads>>
    /\ UNCHANGED <<disk, load_pos, sales_data, source_view, comparison_data,
                   fill_method>>

----------------------------------------------------------------------------
(* SpecPipeline: a loader whose six files are loaded and a caller calling  *)
(* its operations and filter_data_by_date in any order, any number of      *)
(* times                                                                   *)

InitPipeline ==
    /\ disk = FileContent
    /\ datasets = disk
    /\ load_pos = 0
    /\ sales_data \in {<<>>,
                       create_sales_dataset(disk, None, None, NoneStr).value,
                       create_sales_dataset_defaults(disk).value}
    /\ source_view = <<>>
    /\ comparison_data = NoComparison
    /\ fill_method = "pad"
    /\ ret = NoCall
    /\ cache = NoEntry
    /\ file_reads = 0

NextPipeline ==
    \/ CallPrepareOrders
    \/ CallCreateSales
    \/ CallCreateSalesDefault
    \/ CallAddDeliveryMetrics
    \/ CallGetProductCategories
    \/ CallGetCustomerGeographic
    \/ CallGetReviewData
    \/ CallFilterSales
    \/ CallFilterDatasets

SpecPipeline == InitPipeline /\ [][NextPipeline]_vars

\* the result of the last call made again now with the arguments it had
Repeated ==
    CASE ret.op = "prepare_orders_data" -> prepare_orders_data(datasets)
      [] ret.op = "create_sales_dataset" ->
             IF ret.args = <<>> THEN create_sales_dataset_defaults(datasets)
             ELSE create_sales_dataset(datasets, ret.args[1], ret.args[2], ret.args[3])
      [] ret.op = "add_delivery_metrics" -> add_delivery_metrics(ret.args[1])
      [] ret.op = "get_product_categories_data" ->
             get_product_categories_data(datasets, ret.args[1])
      [] ret.op = "get_customer_geographic_data" ->
             get_customer_geographic_data(datasets, ret.args[1])
      [] ret.op = "get_review_data" -> get_review_data(datasets, ret.args[1])
      [] ret.op = "filter_data_by_date" ->
             Ok(filter_data_by_date(ret.args[1], ret.args[2], ret.args[3]).filtered_data)

\* the table(s) the last call was handed, as they are now
ArgumentNow ==
    IF ret.op = "filter_data_by_date"
    THEN (IF DOMAIN ret.args[1] = {"sales"} THEN [sales |-> sales_data] ELSE datasets)
    ELSE sales_data

TakesTable ==
    ret.op \in {"add_delivery_metrics", "get_product_categories_data",
                "get_customer_geographic_data", "get_review_data",
                "filter_data_by_date"}

\* C14 as stated: after load_all_datasets, every call of the loader's
\* operations and of filter_data_by_date leaves the loaded datasets and the
\* table it was handed as they were, and made again with the same arguments
\* returns the same result
C14_CallsLeaveTablesUnchanged ==
    ret.op # "none" =>
        /\ datasets = disk
        /\ TakesTable => ArgumentNow = ret.args[1]
        /\ Repeated = [outcome |-> ret.outcome, value |-> ret.value]

----------------------------------------------------------------------------
(* app.py: load_data under st.cache_data, and main's recomputation pass    *)

MaxReads == 2

\* the mapping load_all_datasets returns: the loop of LoadStep run to its end
load_all_datasets(dsk) == Restrict(dsk, DOMAIN dsk \cap DatasetNames)

\* load_data returned None
NoData == [none |-> TRUE, v |-> <<>>]

\* load_data's body: every exception of the six steps is caught by the one
\* except clause, which returns None
load_data(dsk) ==
    LET ds == load_all_datasets(dsk)
        sales_2023 == create_sales_dataset(ds, Some(2023), None, Some("delivered"))
        sales_2022 == create_sales_dataset(ds, Some(2022), None, Some("delivered"))
    IN  IF sales_2023.outcome # "ok" \/ sales_2022.outcome # "ok" THEN NoData
        ELSE
        LET sales_with_delivery == add_delivery_metrics(sales_2023.value)
            sales_with_reviews == get_review_data(ds, sales_2023.value)
            sales_with_categories == get_product_categories_data(ds, sales_2023.value)
            sales_with_states == get_customer_geographic_data(ds, sales_2023.value)
        IN  IF \/ sales_with_delivery.outcome # "ok"
               \/ sales_with_reviews.outcome # "ok"
               \/ sales_with_categories.outcome # "ok"
               \/ sales_with_states.outcome # "ok"
            THEN NoData
            ELSE Some([sales_2023 |-> sales_2023.value,
                       sales_2022 |-> sales_2022.value,
                       sales_with_delivery |-> sales_with_delivery.value,
                       sales_with_reviews |-> sales_with_reviews.value,
                       sales_with_categories |-> sales_with_categories.value,
                       sales_with_states |-> sales_with_states.value])

\* load_data without its decorator: the body runs at every call
load_data_uncached(entry, dsk) ==
    LET value == load_data(dsk)
    IN  [value |-> value, entry |-> [hit |-> TRUE, value |-> value], executed |-> TRUE]

\* @st.cache_data on a function without parameters: the body runs when the
\* cache holds no entry, and its return value (None included) is stored;
\* every call hands out a copy of the stored value
cached_load_data(entry, dsk) ==
    IF entry.hit
    THEN [value |-> entry.value, entry |-> entry, executed |-> FALSE]
    ELSE LET value == load_data(dsk)
         IN  [value |-> value, entry |-> [hit |-> TRUE, value |-> value],
              executed |-> TRUE]

\* the month column of a sales table whose rows passed the year filter
MonthValues(sales) ==
    [i \in 1..Len(sales) |->
        [order_id |-> sales[i].order_id, price |-> sales[i].price,
         month |-> sales[i].month.v]]

\* main from the date inputs to the last aggregate, for the selected range
\* and the value load_data handed out
Report(data, start_date, end_date, fill) ==
    IF data.none THEN {[outcome |-> "load_failed", value |-> <<>>]}
    ELSE
    UNION {UNION {
      IF current_metrics.outcome # "ok" THEN {current_metrics}
      ELSE
        {Ok([filtered_data |-> filtered_data,
             current_metrics |-> current_metrics.value,
             monthly_trends |->
                 calculate_monthly_trends(MonthValues(filtered_data.sales_2023),
                                          fill).value,
             category_performance |-> category_performance,
             state_performance |-> state_performance,
             delivery_metrics |->
                 calculate_delivery_performance(filtered_data.sales_with_delivery).value,
             satisfaction_metrics |->
                 calculate_customer_satisfaction(filtered_data.sales_with_reviews).value,
             delivery_satisfaction |->
                 analyze_satisfaction_vs_delivery(
                     InnerMerge(filtered_data.sales_with_delivery,
                                filtered_data.sales_with_reviews,
                                SameOrder, ReviewRow)).value]) :
            category_performance \in
                calculate_product_performance(filtered_data.sales_with_categories),
            state_performance \in
                calculate_geographic_performance(filtered_data.sales_with_states)} :
      current_metrics \in
          {calculate_revenue_metrics(filtered_data.sales_2023,
                                     Given(data.v.sales_2022))}} :
      filtered_data \in
          {filter_data_by_date(data.v, start_date, end_date).filtered_data}}

\* one run of the script: the user opened the page or changed a date input
Main ==
    \E start_date \in StartDates, end_date \in EndDates :
      \E got \in {cached_load_data(cache, disk)} :
        /\ got.executed => file_reads < MaxReads
        /\ cache' = got.entry
        /\ file_reads' = IF got.executed THEN file_reads + 1 ELSE file_reads
        /\ \E r \in Report(got.value, start_date, end_date, fill_method) :
               ret' = [op |-> "main",
                       args |-> <<start_date, end_date>>,
                       outcome |-> r.outcome,
                       value |-> r.value,
                       from_cache |-> ~got.executed]
        /\ UNCHANGED <<disk, datasets, load_pos, sales_data, source_view,
                       comparison_data, fill_method>>

\* the user clears the cache from the application menu
ClearCache ==
    /\ cache.hit
    /\ cache' = NoEntry
    /\ file_reads' = 0
    /\ UNCHANGED <<disk, datasets, load_pos, sales_data, source_view,
                   comparison_data, fill_method, ret>>

\* the server process is restarted
Restart ==
    /\ ret # NoCall
    /\ cache' = NoEntry
    /\ file_reads' = 0
    /\ ret' = NoCall
    /\ UNCHANGED <<disk, datasets, load_pos, sales_data, source_view,
                   comparison_data, fill_method>>

----------------------------------------------------------------------------
(* SpecApp: the dashboard over a data directory holding any subset of the  *)
(* six files, the user changing the date range, clearing the cache and     *)
(* restarting in any order                                                 *)

AppFiles ==
    [orders |->
        <<[order_id |-> "A", order_status |-> "delivered", customer_id |-> "c1",
           order_purchase_timestamp |-> RawTs(2023, 2, 10, 9),
           order_delivered_customer_date |-> RawTs(2023, 2, 12, 10)],
          [order_id |-> "B", order_status |-> "delivered", customer_id |-> "c2",
           order_purchase_timestamp |-> RawTs(2023, 2, 11, 15),
           order_delivered_customer_date |-> RawTs(2023, 2, 20, 9)],
          [order_id |-> "C", order_status |-> "delivered", customer_id |-> "c1",
           order_purchase_timestamp |-> RawTs(2022, 3, 5, 10),
           order_delivered_customer_date |-> RawTs(2022, 3, 9, 10)]>>,
     order_items |->
        <<[order_id |-> "A", order_item_id |-> 1, product_id |-> "p1", price |-> 10],
          [order_id |-> "A", order_item_id |-> 2, product_id |-> "p2", price |-> 20],
          [order_id |-> "B", order_item_id |-> 1, product_id |-> "p1", price |-> 30],
          [order_id |-> "C", order_item_id |-> 1, product_id |-> "p1", price |-> 20]>>,
     products |->
        <<[product_id |-> "p1", product_category_name |-> "toys"],
          [product_id |-> "p2", product_category_name |-> "books"]>>,
     customers |->
        <<[customer_id |-> "c1", customer_state |-> "SP"],
          [customer_id |-> "c2", customer_state |-> "RJ"]>>,
     reviews |->
        <<[order_id |-> "A", review_score |-> 5],
          [order_id |-> "B", review_score |-> 3]>>,
     payments |->
        <<[order_id |-> "A", payment_value |-> 30]>>]

InitApp ==
    /\ disk \in {Restrict(AppFiles, S) : S \in SUBSET DatasetNames}
    /\ datasets = <<>>
    /\ load_pos = 0
    /\ sales_data = <<>>
    /\ source_view = <<>>
    /\ comparison_data = NoComparison
    /\ fill_method \in {"pad", "none"}
    /\ ret = NoCall
    /\ cache = NoEntry
    /\ file_reads = 0

NextApp ==
    \/ Main
    \/ ClearCache
    \/ Restart

SpecApp == InitApp /\ [][NextApp]_vars

\* C15: load_data's body, and with it the reading of the files, runs at
\* most once between restarts and cache clears, and whatever date ranges
\* are selected the cached value stays the one that run returned
C15_LoadIsMemoized ==
    /\ file_reads <= 1
    /\ cache.hit => (file_reads = 1 /\ cache.value = load_data(disk))

\* a run with another date range is served from the cache
C15_Witness ==
    /\ ret.op = "main"
    /\ ret.from_cache
    /\ ret.outcome = "ok"
    /\ ret.args = <<Date(2023, 2, 11), Date(2023, 12, 31)>>
    /\ file_reads = 1

\* the calendar day of a timestamp, counted from 2022-01-01
DayOf(ts) == ts.t \div 24

\* purchased on or after the start date and on or before the end date
PurchasedWithin(ts, start_date, end_date) ==
    /\ ~ts.isnat
    /\ DayOf(ts) >= DayOf(date_to_datetime(start_date))
    /\ DayOf(ts) <= DayOf(date_to_datetime(end_date))

\* a run of main that got its data and computed the aggregates
Reported == ret.op = "main" /\ ret.outcome = "ok"

\* C17 as stated: the date range is inclusive at both ends: the filtered
\* sales table holds exactly the rows purchased on or after the start date
\* and on or before the end date, at whatever time of the end date
C17_RangeInclusiveOfEndDate ==
    Reported =>
        ret.value.filtered_data.sales_2023 =
            SelectSeq(load_data(disk).v.sales_2023, LAMBDA r :
                PurchasedWithin(r.order_purchase_timestamp, ret.args[1], ret.args[2]))

\* the datasets whose absence leaves the sales, delivery, category and
\* state views buildable
NeededWithoutReviews == {"orders", "order_items", "products", "customers"}

\* C18 as stated: when the reviews dataset was not loaded and the datasets
\* of the other views were, the run still produces the sales, delivery,
\* category and state views and their metrics
C18_OtherViewsSurviveMissingReviews ==
    (/\ ret.op = "main"
     /\ "reviews" \notin DOMAIN disk
     /\ NeededWithoutReviews \subseteq DOMAIN disk)
        => /\ ret.outcome = "ok"
           /\ {"sales_2023", "sales_with_delivery", "sales_with_categories",
               "sales_with_states"} \subseteq DOMAIN ret.value.filtered_data

\* the purchase timestamp of an order, read from the orders file
PurchaseOf(order_id) ==
    to_datetime((CHOOSE o \in Range(disk.orders) : o.order_id = order_id)
                    .order_purchase_timestamp)

\* the views the aggregates of the selected period are computed from
PeriodViews ==
    {"sales_2023", "sales_with_delivery", "sales_with_reviews",
     "sales_with_categories", "sales_with_states"}

\* C20 as stated: after a date-range selection every view the aggregates
\* are computed from holds only sales lines whose order was purchased
\* within the selected range
C20_EveryViewRestrictedToRange ==
    Reported =>
        \A k \in PeriodViews :
            \A i \in 1..Len(ret.value.filtered_data[k]) :
                TsGeq(PurchaseOf(ret.value.filtered_data[k][i].order_id),
                      date_to_datetime(ret.args[1]))
                /\ TsGeq(date_to_datetime(ret.args[2]),
                         PurchaseOf(ret.value.filtered_data[k][i].order_id))

----------------------------------------------------------------------------
(* SpecTrendYears: calculate_monthly_trends over every small view of sales *)
(* lines of two years, with a month in which nothing was sold              *)

MaxTrendRows == 3

YearRows ==
    {[order_id |-> id, price |-> p, month |-> m, year |-> y] :
        id \in OrderIds, p \in {0, 10}, m \in {1, 3}, y \in {2022, 2023}}

InitTrendYears ==
    /\ disk = <<>>
    /\ datasets = <<>>
    /\ load_pos = 0
    /\ sales_data \in SeqsUpTo(YearRows, MaxTrendRows)
    /\ source_view = <<>>
    /\ comparison_data = NoComparison
    /\ fill_method \in {"pad", "none"}
    /\ ret = NoCall
    /\ cache = NoEntry
    /\ file_reads = 0

NextTrendYears == ret = NoCall /\ CallMonthlyTrends

SpecTrendYears == InitTrendYears /\ [][NextTrendYears]_vars

\* (current - previous) / previous * 100
PercentChange(current, previous) ==
    FScale(FDiv(FSub(current, previous), previous), 100)

\* C22: calculate_monthly_trends returns one row for every month number of
\* the input, in ascending order, a row's revenue and orders taken over the
\* lines of that month number of whatever year, and from the second row on
\* revenue_growth and order_growth are the percentage change against the
\* row before it in the output
C22_TrendsPerMonthNumber ==
    (ret.op = "calculate_monthly_trends") =>
        LET view == ret.args[1]
            present == Range(Column(view, "month"))
            lines(m) == SelectSeq(view, LAMBDA r : r.month = m)
        IN  /\ ret.outcome = "ok"
            /\ Len(ret.value) = Cardinality(present)
            /\ Range(Column(ret.value, "month")) = present
            /\ \A i \in 1..Len(ret.value) :
                   /\ i > 1 => ret.value[i - 1].month < ret.value[i].month
                   /\ ret.value[i].revenue =
                          Num(SumSeq(Column(lines(ret.value[i].month), "price")))
                   /\ ret.value[i].orders =
                          Num(Cardinality(Range(Column(lines(ret.value[i].month),
                                                       "order_id"))))
                   /\ i > 1 =>
                          /\ ret.value[i].revenue_growth =
                                 PercentChange(ret.value[i].revenue,
                                               ret.value[i - 1].revenue)
                          /\ ret.value[i].order_growth =
                                 PercentChange(ret.value[i].orders,
                                               ret.value[i - 1].orders)

\* March of 2023 comes first in the input, then January, then March of
\* 2022: two rows, March's over both years and compared with January
C22_Witness ==
    /\ ret.op = "calculate_monthly_trends"
    /\ Column(ret.args[1], "month") = <<3, 1, 3>>
    /\ Column(ret.args[1], "year") = <<2023, 2023, 2022>>
    /\ Column(ret.value, "month") = <<1, 3>>
    /\ ret.value[1].revenue = Num(10)
    /\ ret.value[2].revenue = Num(20)
    /\ ret.value[2].revenue_growth = Num(100)

====
